---- MODULE Spec2Model ----
(***************************************************************************)
(* A model of jsonbender: bender trees, the two evaluation protocols      *)
(* (raw_execute/execute/__call__ of jsonbender.core, and the .bend(source) *)
(* method of the control-flow, list and string combinators), and the      *)
(* bend() entry point.                                                     *)
(*                                                                         *)
(* Python values and bender objects are tagged tuples <<tag, ...>>.        *)
(* A Python str is a sequence of symbols (each symbol a TLA+ string), a    *)
(* Python list a sequence of values, a Python dict the sequence of its     *)
(* <<key, value>> items in insertion order.                                *)
(***************************************************************************)
EXTENDS Integers, Sequences, FiniteSets, TLC

--------------------------------------------------------------------------
(* Python values *)

NoneV == <<"none">>
BoolV(b) == <<"bool", b>>
IntV(i) == <<"int", i>>
StrV(s) == <<"str", s>>
ListV(items) == <<"list", items>>
DictV(items) == <<"dict", items>>
EmptyDict == DictV(<<>>)

(* The classes of jsonbender.core and of the combinator modules. *)
CoreTypes ==
  {"K", "List", "Dict", "GetItem", "Compose", "Neg", "Invert",
   "Add", "Sub", "Mul", "Eq", "Ne", "And", "Or", "Context"}
ListOpTypes == {"Forall", "ForallBend", "Reduce", "Filter", "FlatForall"}
BendTypes ==
  {"If", "Alternation", "Switch", "Format", "ProtectedFormat"} \cup ListOpTypes
BenderTypes == CoreTypes \cup BendTypes

(* isinstance(x, Bender) *)
IsBender(x) == x[1] \in BenderTypes

(* type(x).__name__ *)
TypeName(x) ==
  CASE x[1] = "none" -> "NoneType"
    [] x[1] = "transport" -> "Transport"
    [] OTHER -> x[1]

(* bool(x): None, False, 0 and empty containers are falsy; Bender defines   *)
(* neither __bool__ nor __len__, so every bender object is truthy.         *)
Truthy(x) ==
  CASE x[1] = "none" -> FALSE
    [] x[1] = "bool" -> x[2]
    [] x[1] = "int" -> x[2] # 0
    [] x[1] \in {"str", "list", "dict"} -> Len(x[2]) > 0
    [] OTHER -> TRUE

IsNum(x) == x[1] \in {"int", "bool"}
NumOf(x) == IF x[1] = "bool" THEN (IF x[2] THEN 1 ELSE 0) ELSE x[2]

RECURSIVE ReprOf(_)
RECURSIVE ReprItems(_, _, _)
(* ", ".join of the reprs of a list's elements (dict: of "k: v" items) *)
ReprItems(items, i, isDict) ==
  IF i > Len(items) THEN <<>>
  ELSE (IF i > 1 THEN <<", ">> ELSE <<>>)
       \o (IF isDict
           THEN ReprOf(items[i][1]) \o <<": ">> \o ReprOf(items[i][2])
           ELSE ReprOf(items[i]))
       \o ReprItems(items, i + 1, isDict)

(* repr(x) *)
ReprOf(x) ==
  CASE x[1] = "none" -> <<"None">>
    [] x[1] = "bool" -> IF x[2] THEN <<"True">> ELSE <<"False">>
    [] x[1] = "int" -> <<ToString(x[2])>>
    [] x[1] = "str" -> <<"'">> \o x[2] \o <<"'">>
    [] x[1] = "list" -> <<"[">> \o ReprItems(x[2], 1, FALSE) \o <<"]">>
    [] x[1] = "dict" -> <<"{">> \o ReprItems(x[2], 1, TRUE) \o <<"}">>
    [] OTHER -> <<"<", x[1], " object>">>

(* str(x), which is also format(x, '') *)
StrOf(x) == IF x[1] = "str" THEN x[2] ELSE ReprOf(x)

RECURSIVE PyEq(_, _)
(* x == y on plain values *)
PyEq(x, y) ==
  CASE IsNum(x) /\ IsNum(y) -> NumOf(x) = NumOf(y)
    [] x[1] = "list" /\ y[1] = "list" ->
         /\ Len(x[2]) = Len(y[2])
         /\ \A i \in 1..Len(x[2]) : PyEq(x[2][i], y[2][i])
    [] x[1] = "dict" /\ y[1] = "dict" ->
         /\ Len(x[2]) = Len(y[2])
         /\ \A i \in 1..Len(x[2]) : \E j \in 1..Len(y[2]) :
              PyEq(x[2][i][1], y[2][j][1]) /\ PyEq(x[2][i][2], y[2][j][2])
    [] OTHER -> x = y

(* d has key k / d[k] for a dict d *)
HasKey(d, k) == \E i \in 1..Len(d[2]) : PyEq(d[2][i][1], k)
Lookup(d, k) == d[2][CHOOSE i \in 1..Len(d[2]) : PyEq(d[2][i][1], k)][2]

(* d[k] = v on a dict under construction: replaces, else appends *)
SetItem(d, k, v) ==
  IF HasKey(d, k)
  THEN DictV([i \in 1..Len(d[2]) |->
                IF PyEq(d[2][i][1], k) THEN <<d[2][i][1], v>> ELSE d[2][i]])
  ELSE DictV(Append(d[2], <<k, v>>))

--------------------------------------------------------------------------
(* Outcomes of a call: a returned value or a raised exception, with the    *)
(* trace of what the call did: <<"eval", path>> when an evaluation method  *)
(* is invoked on the bender at that path below the root, <<"fn", f, args>> *)
(* when a user function is called, <<"setattr", path, attr>> when an       *)
(* attribute of the bender at that path is assigned.                       *)

Return(v, log) ==
  [st |-> "ok", val |-> v, cls |-> "", msg |-> <<>>, log |-> log]
Raise(cls, msg, log) ==
  [st |-> "exc", val |-> NoneV, cls |-> cls, msg |-> msg, log |-> log]

(* r, having run after the events of log *)
After(log, r) == [r EXCEPT !.log = log \o @]

(* issubclass(cls, LookupError) *)
IsLookupError(cls) == cls \in {"LookupError", "KeyError", "IndexError"}

--------------------------------------------------------------------------
(* Transport *)

Transport(value, context) == <<"transport", value, context>>
ValueOf(transport) == transport[2]
ContextOf(transport) == transport[3]

from_source(source) ==
  IF source[1] = "transport" THEN source ELSE Transport(source, EmptyDict)

--------------------------------------------------------------------------
(* Bender objects: <<class name, field, ...>>.  The constructors keep the  *)
(* fields the __init__ methods assign.                                     *)

RECURSIVE benderify(_)

K(value) == <<"K", value>>

(* List(list_): self.list; Dict(dict_): self.dict, as its items *)
List(list_) == <<"List", [i \in 1..Len(list_) |-> benderify(list_[i])]>>
Dict(dict_) ==
  <<"Dict", [i \in 1..Len(dict_) |-> <<dict_[i][1], benderify(dict_[i][2])>>]>>

GetItem(index) == <<"GetItem", index>>

(* self._first, self._second *)
Compose(first, second) == <<"Compose", benderify(first), benderify(second)>>

(* UnaryOperator.__init__: self.bender *)
UnaryOperator(cls, bender) == <<cls, benderify(bender)>>
Neg(bender) == UnaryOperator("Neg", bender)
Invert(bender) == UnaryOperator("Invert", bender)

(* BinaryOperator.__init__: self._bender1, self._bender2 *)
BinaryOperator(cls, bender1, bender2) ==
  <<cls, benderify(bender1), benderify(bender2)>>
Add(bender1, bender2) == BinaryOperator("Add", bender1, bender2)
Sub(bender1, bender2) == BinaryOperator("Sub", bender1, bender2)
Mul(bender1, bender2) == BinaryOperator("Mul", bender1, bender2)
Eq(bender1, bender2) == BinaryOperator("Eq", bender1, bender2)
Ne(bender1, bender2) == BinaryOperator("Ne", bender1, bender2)
And(bender1, bender2) == BinaryOperator("And", bender1, bender2)
Or(bender1, bender2) == BinaryOperator("Or", bender1, bender2)

Context == <<"Context">>

(* Recursively turn all values in a data-structure into bender objects. *)
benderify(mapping) ==
  CASE mapping[1] = "list" -> List(mapping[2])
    [] mapping[1] = "dict" -> Dict(mapping[2])
    [] IsBender(mapping) -> mapping
    [] OTHER -> K(mapping)

--------------------------------------------------------------------------
(* The operations on values that the benders apply *)

(* value[index] *)
Subscript(value, index) ==
  CASE value[1] = "dict" ->
         IF HasKey(value, index)
         THEN Return(Lookup(value, index), <<>>)
         ELSE Raise("KeyError", ReprOf(index), <<>>)
    [] value[1] \in {"list", "str"} ->
         IF ~IsNum(index)
         THEN Raise("TypeError",
                    <<value[1], " indices must be integers or slices, not ",
                      TypeName(index)>>, <<>>)
         ELSE LET n == Len(value[2])
                  i == IF NumOf(index) < 0 THEN NumOf(index) + n
                       ELSE NumOf(index)
              IN IF i \in 0..(n - 1)
                 THEN Return(IF value[1] = "str" THEN StrV(<<value[2][i + 1]>>)
                             ELSE value[2][i + 1], <<>>)
                 ELSE Raise("IndexError",
                            <<value[1], " index out of range">>, <<>>)
    [] OTHER ->
         Raise("TypeError",
               <<"'", TypeName(value), "' object is not subscriptable">>, <<>>)

Neg_op(v) ==
  IF IsNum(v) THEN Return(IntV(0 - NumOf(v)), <<>>)
  ELSE Raise("TypeError",
             <<"bad operand type for unary -: '", TypeName(v), "'">>, <<>>)

Invert_op(v) == Return(BoolV(~Truthy(v)), <<>>)

BadOperands(sym, v1, v2) ==
  Raise("TypeError",
        <<"unsupported operand type(s) for ", sym, ": '", TypeName(v1),
          "' and '", TypeName(v2), "'">>, <<>>)

Add_op(v1, v2) ==
  CASE IsNum(v1) /\ IsNum(v2) -> Return(IntV(NumOf(v1) + NumOf(v2)), <<>>)
    [] v1[1] \in {"str", "list"} /\ v2[1] = v1[1] ->
         Return(<<v1[1], v1[2] \o v2[2]>>, <<>>)
    [] v1[1] \in {"str", "list"} ->
         Raise("TypeError",
               <<"can only concatenate ", v1[1], " (not \"", TypeName(v2),
                 "\") to ", v1[1]>>, <<>>)
    [] OTHER -> BadOperands("+", v1, v2)

Sub_op(v1, v2) ==
  IF IsNum(v1) /\ IsNum(v2) THEN Return(IntV(NumOf(v1) - NumOf(v2)), <<>>)
  ELSE BadOperands("-", v1, v2)

RECURSIVE Repeat(_, _)
Repeat(s, n) == IF n <= 0 THEN <<>> ELSE s \o Repeat(s, n - 1)

Mul_op(v1, v2) ==
  CASE IsNum(v1) /\ IsNum(v2) -> Return(IntV(NumOf(v1) * NumOf(v2)), <<>>)
    [] v1[1] \in {"str", "list"} /\ IsNum(v2) ->
         Return(<<v1[1], Repeat(v1[2], NumOf(v2))>>, <<>>)
    [] IsNum(v1) /\ v2[1] \in {"str", "list"} ->
         Return(<<v2[1], Repeat(v2[2], NumOf(v1))>>, <<>>)
    [] v1[1] \in {"str", "list"} ->
         Raise("TypeError",
               <<"can't multiply sequence by non-int of type '", TypeName(v2),
                 "'">>, <<>>)
    [] OTHER -> BadOperands("*", v1, v2)

Eq_op(v1, v2) == Return(BoolV(PyEq(v1, v2)), <<>>)
Ne_op(v1, v2) == Return(BoolV(~PyEq(v1, v2)), <<>>)
And_op(v1, v2) == Return(IF Truthy(v1) THEN v2 ELSE v1, <<>>)
Or_op(v1, v2) == Return(IF Truthy(v1) THEN v1 ELSE v2, <<>>)

UnaryOp(cls, v) == IF cls = "Neg" THEN Neg_op(v) ELSE Invert_op(v)

BinaryOp(cls, v1, v2) ==
  CASE cls = "Add" -> Add_op(v1, v2)
    [] cls = "Sub" -> Sub_op(v1, v2)
    [] cls = "Mul" -> Mul_op(v1, v2)
    [] cls = "Eq" -> Eq_op(v1, v2)
    [] cls = "Ne" -> Ne_op(v1, v2)
    [] cls = "And" -> And_op(v1, v2)
    [] OTHER -> Or_op(v1, v2)

--------------------------------------------------------------------------
(* Trace events, and the sequencing of calls *)

EvalEv(path) == <<"eval", path>>
FnEv(name, args) == <<"fn", name, args>>
SetAttrEv(path, attr) == <<"setattr", path, attr>>
FormatEv(path) == <<"format", path>>
(* raw_execute of the bender of class cls at path is given source, and     *)
(* returns transport                                                       *)
RecvEv(path, cls, source) == <<"recv", path, cls, source>>
RetEv(path, cls, transport) == <<"ret", path, cls, transport>>

(* r; and, unless r raised, Cont on the value of r.  An exception of r     *)
(* propagates.                                                             *)
Then(r, Cont(_)) == IF r.st = "exc" THEN r ELSE After(r.log, Cont(r.val))

(* try: r   except: Handler(the exception raised)   else: Cont(r's value)  *)
Try(r, Handler(_), Cont(_)) ==
  IF r.st = "exc" THEN After(r.log, Handler([r EXCEPT !.log = <<>>]))
  ELSE After(r.log, Cont(r.val))

--------------------------------------------------------------------------
(* jsonbender.core: evaluation.  Every operator takes the bender (self),   *)
(* what it is called with, and the bender's path below the root (for the   *)
(* trace only).  Children are numbered: List and Dict by position,         *)
(* Compose 1 (first) and 2 (second), a unary operator 1, a binary          *)
(* operator 1 and 2.                                                       *)

RECURSIVE raw_execute(_, _, _)

(* Bender.__call__: self.raw_execute(source).value *)
Bender_call(self, source, path) ==
  Then(raw_execute(self, source, path), LAMBDA t : Return(ValueOf(t), <<>>))

(* a variant of K.execute: returns its argument instead of the constant *)
K_execute_source(self, source) == Return(source, <<>>)

K_execute(self, source) == Return(self[2], <<>>)

GetItem_execute(self, value) == Subscript(value, self[2])

(* Bender.execute, which the combinators that define only bend() inherit *)
Bender_execute(self, source) == Raise("NotImplementedError", <<>>, <<>>)

(* self.execute(source) *)
execute(self, source) ==
  CASE self[1] = "K" -> K_execute(self, source)
    [] self[1] = "GetItem" -> GetItem_execute(self, source)
    [] OTHER -> Bender_execute(self, source)

Bender_raw_execute(self, source, path) ==
  LET transport == from_source(source)
  IN Then(execute(self, ValueOf(transport)),
          LAMBDA v : Return(Transport(v, ContextOf(transport)), <<>>))

RECURSIVE List_loop(_, _, _, _, _)
(* the comprehension of List.raw_execute from element i on, res so far *)
List_loop(self, source, path, i, res) ==
  IF i > Len(self[2])
  THEN Return(Transport(ListV(res), ContextOf(source)), <<>>)
  ELSE Then(raw_execute(self[2][i], source, path \o <<i>>),
            LAMBDA t : List_loop(self, source, path, i + 1,
                                 Append(res, ValueOf(t))))

List_raw_execute(self, source, path) ==
  List_loop(self, from_source(source), path, 1, <<>>)

RECURSIVE Dict_loop_no_try(_, _, _, _, _)
(* a variant of the loop of Dict.raw_execute: no try/except around the    *)
(* evaluation of a child                                                   *)
Dict_loop_no_try(self, source, path, i, res) ==
  IF i > Len(self[2])
  THEN Return(Transport(res, ContextOf(source)), <<>>)
  ELSE Then(raw_execute(self[2][i][2], source, path \o <<i>>),
            LAMBDA t : Dict_loop_no_try(self, source, path, i + 1,
                                        SetItem(res, self[2][i][1], ValueOf(t))))

RECURSIVE Dict_loop_same_class(_, _, _, _, _)
(* a variant of the loop of Dict.raw_execute: the exception raised keeps   *)
(* the class of the child's exception                                      *)
Dict_loop_same_class(self, source, path, i, res) ==
  IF i > Len(self[2])
  THEN Return(Transport(res, ContextOf(source)), <<>>)
  ELSE Try(raw_execute(self[2][i][2], source, path \o <<i>>),
           LAMBDA e : Raise(e.cls,
                            <<"Error for key ">> \o StrOf(self[2][i][1])
                              \o <<": ">> \o e.msg, <<>>),
           LAMBDA t : Dict_loop_same_class(self, source, path, i + 1,
                                           SetItem(res, self[2][i][1],
                                                   ValueOf(t))))

RECURSIVE Dict_loop(_, _, _, _, _)
(* the loop of Dict.raw_execute from item i on, res so far *)
Dict_loop(self, source, path, i, res) ==
  IF i > Len(self[2])
  THEN Return(Transport(res, ContextOf(source)), <<>>)
  ELSE Try(raw_execute(self[2][i][2], source, path \o <<i>>),
           LAMBDA e : Raise("BendingException",
                            <<"Error for key ">> \o StrOf(self[2][i][1])
                              \o <<": ">> \o e.msg, <<>>),
           LAMBDA t : Dict_loop(self, source, path, i + 1,
                                SetItem(res, self[2][i][1], ValueOf(t))))

Dict_raw_execute(self, source, path) ==
  Dict_loop(self, from_source(source), path, 1, EmptyDict)

(* a variant of Compose.raw_execute: second runs first, first on its result *)
Compose_raw_execute_reversed(self, source, path) ==
  Then(raw_execute(self[3], source, path \o <<2>>),
       LAMBDA t : raw_execute(self[2], t, path \o <<1>>))

(* a variant of Compose.raw_execute: second is given the value of first,   *)
(* not its transport                                                       *)
Compose_raw_execute_value(self, source, path) ==
  Then(raw_execute(self[2], source, path \o <<1>>),
       LAMBDA t : raw_execute(self[3], ValueOf(t), path \o <<2>>))

Compose_raw_execute(self, source, path) ==
  Then(raw_execute(self[2], source, path \o <<1>>),
       LAMBDA t : raw_execute(self[3], t, path \o <<2>>))

UnaryOperator_raw_execute(self, source, path) ==
  LET src == from_source(source)
  IN Then(Bender_call(self[2], src, path \o <<1>>),
          LAMBDA v : Then(UnaryOp(self[1], v),
          LAMBDA val : Return(Transport(val, ContextOf(src)), <<>>)))

BinaryOperator_raw_execute(self, source, path) ==
  LET src == from_source(source)
  IN Then(Bender_call(self[2], src, path \o <<1>>),
          LAMBDA v1 : Then(Bender_call(self[3], src, path \o <<2>>),
          LAMBDA v2 : Then(BinaryOp(self[1], v1, v2),
          LAMBDA val : Return(Transport(val, ContextOf(src)), <<>>))))

Context_raw_execute(self, source, path) ==
  LET transport == from_source(source)
  IN Return(Transport(ContextOf(transport), ContextOf(transport)), <<>>)

(* self.raw_execute(source), by the class of self *)
raw_execute(self, source, path) ==
  After(<<EvalEv(path), RecvEv(path, self[1], source)>>,
    Then(
        CASE self[1] = "List" -> List_raw_execute(self, source, path)
          [] self[1] = "Dict" -> Dict_raw_execute(self, source, path)
          [] self[1] = "Compose" -> Compose_raw_execute(self, source, path)
          [] self[1] \in {"Neg", "Invert"} ->
               UnaryOperator_raw_execute(self, source, path)
          [] self[1] \in {"Add", "Sub", "Mul", "Eq", "Ne", "And", "Or"} ->
               BinaryOperator_raw_execute(self, source, path)
          [] self[1] = "Context" -> Context_raw_execute(self, source, path)
          [] OTHER -> Bender_raw_execute(self, source, path),
        LAMBDA t : Return(t, <<RetEv(path, self[1], t)>>)))

(* The main bending function; context NoneV is the omitted argument. *)
bend(mapping, source, context, path) ==
  LET ctx == IF context = NoneV THEN EmptyDict ELSE context
  IN Bender_call(benderify(mapping), Transport(source, ctx), path)

--------------------------------------------------------------------------
(* Callables given to the list operations: <<"function", name>> is one of  *)
(* the caller's functions below, <<"lambda", self>> the closure that        *)
(* ForallBend.bend creates over its ForallBend object.                     *)

Function(name) == <<"function", name>>

(* The caller's functions, as Python would write them:                     *)
(*   double  lambda i: i * 2          pair    lambda i: [i, i]            *)
(*   truthy  lambda i: i              get_x   lambda i: i['x']            *)
(*   add     lambda acc, i: acc + i   sub     lambda acc, i: acc - i      *)
UserFunction(name, args) ==
  CASE name = "double" -> Mul_op(args[1], IntV(2))
    [] name = "pair" -> Return(ListV(<<args[1], args[1]>>), <<>>)
    [] name = "truthy" -> Return(args[1], <<>>)
    [] name = "get_x" -> Subscript(args[1], StrV(<<"x">>))
    [] name = "add" -> Add_op(args[1], args[2])
    [] OTHER -> Sub_op(args[1], args[2])

(* the closure of ForallBend.bend: lambda v: bend(self._mapping, v) *)
ForallBend_lambda(self, v, path) == bend(self[2], v, NoneV, path \o <<1>>)

(* a call of func with args, made by the list operation at path *)
CallFunc(func, args, path) ==
  IF func[1] = "lambda"
  THEN ForallBend_lambda(func[2], args[1], path)
  ELSE After(<<FnEv(func[2], args)>>, UserFunction(func[2], args))

(* iter(vals): the items a for loop sees, or the TypeError *)
Iter(vals) ==
  CASE vals[1] = "list" -> Return(vals[2], <<>>)
    [] vals[1] = "str" ->
         Return([i \in 1..Len(vals[2]) |-> StrV(<<vals[2][i]>>)], <<>>)
    [] vals[1] = "dict" ->
         Return([i \in 1..Len(vals[2]) |-> vals[2][i][1]], <<>>)
    [] OTHER ->
         Raise("TypeError",
               <<"'", TypeName(vals), "' object is not iterable">>, <<>>)

--------------------------------------------------------------------------
(* jsonbender.list_ops.  A ListOp object is <<class, _func, _bender>>; a   *)
(* ForallBend object is <<"ForallBend", _mapping, _bender>>: its __init__  *)
(* keeps no context and sets no _func.  Children: _bender 1; the mapping   *)
(* of a ForallBend 1.                                                      *)

RECURSIVE bend_of(_, _, _)

ListOp(cls, func) == <<cls, func, NoneV>>
(* the deprecated two-argument form *)
ListOp2(cls, bender, func) == <<cls, func, bender>>
Forall(func) == ListOp("Forall", func)
Reduce(func) == ListOp("Reduce", func)
Filter(func) == ListOp("Filter", func)
FlatForall(func) == ListOp("FlatForall", func)
ForallBend(mapping, context) == <<"ForallBend", mapping, NoneV>>

RECURSIVE Map_loop(_, _, _, _, _)
(* list(map(func, vals)) from item i on *)
Map_loop(func, items, path, i, res) ==
  IF i > Len(items) THEN Return(ListV(res), <<>>)
  ELSE Then(CallFunc(func, <<items[i]>>, path),
            LAMBDA v : Map_loop(func, items, path, i + 1, Append(res, v)))

Forall_op(func, vals, path) ==
  Then(Iter(vals), LAMBDA items : Map_loop(func, items, path, 1, <<>>))

RECURSIVE Reduce_loop_swapped(_, _, _, _, _)
(* a variant of the fold: func is given the item first, then acc *)
Reduce_loop_swapped(func, items, path, i, acc) ==
  IF i > Len(items) THEN Return(acc, <<>>)
  ELSE Then(CallFunc(func, <<items[i], acc>>, path),
            LAMBDA v : Reduce_loop_swapped(func, items, path, i + 1, v))

RECURSIVE Reduce_loop(_, _, _, _, _)
(* functools.reduce from item i on, acc so far *)
Reduce_loop(func, items, path, i, acc) ==
  IF i > Len(items) THEN Return(acc, <<>>)
  ELSE Then(CallFunc(func, <<acc, items[i]>>, path),
            LAMBDA v : Reduce_loop(func, items, path, i + 1, v))

(* functools.reduce(func, vals), no initial value *)
functools_reduce(func, vals, path) ==
  Try(Iter(vals),
      LAMBDA e : Raise("TypeError",
                       <<"reduce() arg 2 must support iteration">>, <<>>),
      LAMBDA items :
        IF Len(items) = 0
        THEN Raise("TypeError",
                   <<"reduce() of empty iterable with no initial value">>,
                   <<>>)
        ELSE Reduce_loop(func, items, path, 2, items[1]))

Reduce_op(func, vals, path) ==
  Try(functools_reduce(func, vals, path),
      LAMBDA e : IF e.cls = "TypeError" THEN Raise("ValueError", e.msg, <<>>)
                 ELSE e,
      LAMBDA v : Return(v, <<>>))

RECURSIVE Filter_loop(_, _, _, _, _)
(* list(filter(func, vals)) from item i on *)
Filter_loop(func, items, path, i, res) ==
  IF i > Len(items) THEN Return(ListV(res), <<>>)
  ELSE Then(CallFunc(func, <<items[i]>>, path),
            LAMBDA v : Filter_loop(func, items, path, i + 1,
                                   IF Truthy(v) THEN Append(res, items[i])
                                   ELSE res))

Filter_op(func, vals, path) ==
  Then(Iter(vals), LAMBDA items : Filter_loop(func, items, path, 1, <<>>))

RECURSIVE FlatForall_loop(_, _, _, _, _)
(* list(chain.from_iterable(map(func, vals))) from item i on *)
FlatForall_loop(func, items, path, i, res) ==
  IF i > Len(items) THEN Return(ListV(res), <<>>)
  ELSE Then(CallFunc(func, <<items[i]>>, path),
            LAMBDA v : Then(Iter(v),
            LAMBDA sub : FlatForall_loop(func, items, path, i + 1,
                                         res \o sub)))

FlatForall_op(func, vals, path) ==
  Then(Iter(vals), LAMBDA items : FlatForall_loop(func, items, path, 1, <<>>))

(* self.op(func, vals), by the class of self *)
op(self, func, vals, path) ==
  CASE self[1] \in {"Forall", "ForallBend"} -> Forall_op(func, vals, path)
    [] self[1] = "Reduce" -> Reduce_op(func, vals, path)
    [] self[1] = "Filter" -> Filter_op(func, vals, path)
    [] OTHER -> FlatForall_op(func, vals, path)

(* ListOp.bend, reading func as self._func *)
ListOp_bend(self, func, source, path) ==
  Then(IF Truthy(self[3]) THEN bend_of(self[3], source, path \o <<1>>)
       ELSE Return(source, <<>>),
       LAMBDA src : op(self, func, src, path))

(* ForallBend.bend: assigns self._func, then ListOp.bend *)
ForallBend_bend(self, source, path) ==
  After(<<SetAttrEv(path, "_func")>>,
        ListOp_bend(self, <<"lambda", self>>, source, path))

--------------------------------------------------------------------------
(* jsonbender.control_flow.  If: <<"If", condition, when_true, when_false>>*)
(* (children 1, 2, 3); Alternation: <<"Alternation", benders>> (child i);  *)
(* Switch: <<"Switch", key_bender, cases, default>> (key_bender 1, default *)
(* 2, the case found at position j of cases 2 + j).  None of the three     *)
(* constructors benderifies what it is given.                              *)

If(condition, when_true, when_false) ==
  <<"If", condition, when_true, when_false>>
(* the default of when_true and of when_false *)
If_default == K(NoneV)

Alternation(benders) == <<"Alternation", benders>>

(* default NoneV is the omitted argument *)
Switch(key_bender, cases, default) ==
  <<"Switch", key_bender, cases, default>>

If_bend(self, val, path) ==
  Then(bend_of(self[2], val, path \o <<1>>),
       LAMBDA c : IF Truthy(c) THEN bend_of(self[3], val, path \o <<2>>)
                  ELSE bend_of(self[4], val, path \o <<3>>))

RECURSIVE Alternation_loop_any(_, _, _, _, _)
(* a variant of the loop of Alternation.bend: except Exception *)
Alternation_loop_any(self, source, path, i, exc) ==
  IF i > Len(self[2]) THEN exc
  ELSE Try(bend_of(self[2][i], source, path \o <<i>>),
           LAMBDA e : Alternation_loop_any(self, source, path, i + 1, e),
           LAMBDA result : Return(result, <<>>))

RECURSIVE Alternation_loop(_, _, _, _, _)
(* the for loop of Alternation.bend from bender i on; exc is the exception *)
(* remembered so far, raised by the loop's else clause                     *)
Alternation_loop(self, source, path, i, exc) ==
  IF i > Len(self[2]) THEN exc
  ELSE Try(bend_of(self[2][i], source, path \o <<i>>),
           LAMBDA e : IF IsLookupError(e.cls)
                      THEN Alternation_loop(self, source, path, i + 1, e)
                      ELSE e,
           LAMBDA result : Return(result, <<>>))

Alternation_bend(self, source, path) ==
  Alternation_loop(self, source, path, 1, Raise("ValueError", <<>>, <<>>))

(* the position in cases of the item that cases[key] returns *)
CasePosition(cases, key) ==
  IF cases[1] = "dict"
  THEN CHOOSE j \in 1..Len(cases[2]) : PyEq(cases[2][j][1], key)
  ELSE (IF NumOf(key) < 0 THEN NumOf(key) + Len(cases[2]) ELSE NumOf(key)) + 1

(* a variant of Switch.bend: a default, when given, wins over the cases *)
Switch_bend_default_first(self, source, path) ==
  Then(bend_of(self[2], source, path \o <<1>>),
       LAMBDA key :
         IF Truthy(self[4]) THEN bend_of(self[4], source, path \o <<2>>)
         ELSE Then(Subscript(self[3], key),
                   LAMBDA bender :
                     bend_of(bender, source,
                             path \o <<2 + CasePosition(self[3], key)>>)))

Switch_bend(self, source, path) ==
  Then(bend_of(self[2], source, path \o <<1>>),
       LAMBDA key :
         Try(Subscript(self[3], key),
             LAMBDA e : IF IsLookupError(e.cls) /\ Truthy(self[4])
                        THEN bend_of(self[4], source, path \o <<2>>)
                        ELSE e,
             LAMBDA bender :
               bend_of(bender, source,
                       path \o <<2 + CasePosition(self[3], key)>>)))

--------------------------------------------------------------------------
(* jsonbender.string_ops.  <<class, _format_str, _positional_benders,      *)
(* _named_benders>>: the format string as its parsed fields (<<"lit", s>>  *)
(* literal text, <<"auto">> a "{}" field, <<"name", n>> a "{n}" field),    *)
(* the named benders as <<name, bender>> items.  Children: positional i,   *)
(* named j at Len(_positional_benders) + j.                                *)

Format(format_string, args, kwargs) ==
  <<"Format", format_string, args, kwargs>>
ProtectedFormat(format_string, args, kwargs) ==
  <<"ProtectedFormat", format_string, args, kwargs>>

RECURSIVE str_format_loop(_, _, _, _, _, _)
(* str.format from field i on: auto is the next automatic index *)
str_format_loop(fmt, args, kwargs, i, auto, res) ==
  IF i > Len(fmt) THEN Return(StrV(res), <<>>)
  ELSE CASE fmt[i][1] = "lit" ->
              str_format_loop(fmt, args, kwargs, i + 1, auto,
                              Append(res, fmt[i][2]))
         [] fmt[i][1] = "auto" ->
              IF auto >= Len(args)
              THEN Raise("IndexError",
                         <<"Replacement index ", ToString(auto),
                           " out of range for positional args tuple">>, <<>>)
              ELSE str_format_loop(fmt, args, kwargs, i + 1, auto + 1,
                                   res \o StrOf(args[auto + 1]))
         [] OTHER ->
              IF ~HasKey(kwargs, StrV(<<fmt[i][2]>>))
              THEN Raise("KeyError", ReprOf(StrV(<<fmt[i][2]>>)), <<>>)
              ELSE str_format_loop(fmt, args, kwargs, i + 1, auto,
                       res \o StrOf(Lookup(kwargs, StrV(<<fmt[i][2]>>))))

(* str.format of the format string with the evaluated arguments *)
str_format(fmt, args, kwargs) == str_format_loop(fmt, args, kwargs, 1, 0, <<>>)

RECURSIVE bend_each(_, _, _, _, _, _)
(* [bender.bend(source) for bender in benders] from bender i on; the       *)
(* benders are the children offset + 1, offset + 2, ...                    *)
bend_each(benders, source, path, offset, i, res) ==
  IF i > Len(benders) THEN Return(res, <<>>)
  ELSE Then(bend_of(benders[i], source, path \o <<offset + i>>),
            LAMBDA v : bend_each(benders, source, path, offset, i + 1,
                                 Append(res, v)))

(* the values of the positional, then of the named benders *)
bend_args(self, source, path) ==
  Then(bend_each(self[3], source, path, 0, 1, <<>>),
       LAMBDA args :
         Then(bend_each([j \in 1..Len(self[4]) |-> self[4][j][2]],
                        source, path, Len(self[3]), 1, <<>>),
       LAMBDA kwargs : Return(<<args, kwargs>>, <<>>)))

Format_bend(self, source, path) ==
  Then(bend_args(self, source, path),
       LAMBDA a :
         After(<<FormatEv(path)>>,
               str_format(self[2], a[1],
                          DictV([j \in 1..Len(self[4]) |->
                                   <<StrV(<<self[4][j][1]>>), a[2][j]>>]))))

(* a variant of ProtectedFormat.bend: only the positional values are      *)
(* tested for None                                                         *)
ProtectedFormat_bend_positional(self, source, path) ==
  Then(bend_args(self, source, path),
       LAMBDA a :
         IF \E i \in 1..Len(a[1]) : a[1][i] = NoneV
         THEN Return(NoneV, <<>>)
         ELSE Format_bend(self, source, path))

ProtectedFormat_bend(self, source, path) ==
  Then(bend_args(self, source, path),
       LAMBDA a :
         IF \E v \in {a[1][i] : i \in 1..Len(a[1])}
                     \cup {a[2][j] : j \in 1..Len(a[2])} : v = NoneV
         THEN Return(NoneV, <<>>)
         ELSE Format_bend(self, source, path))

--------------------------------------------------------------------------
(* x.bend(source): the method of the class of x.  jsonbender.core defines  *)
(* no bend method, so on an object of a core class, and on a plain value,  *)
(* the attribute lookup raises AttributeError.                             *)

bend_of(x, source, path) ==
  After(<<EvalEv(path)>>,
        CASE x[1] = "If" -> If_bend(x, source, path)
          [] x[1] = "Alternation" -> Alternation_bend(x, source, path)
          [] x[1] = "Switch" -> Switch_bend(x, source, path)
          [] x[1] = "ForallBend" -> ForallBend_bend(x, source, path)
          [] x[1] \in {"Forall", "Reduce", "Filter", "FlatForall"} ->
               ListOp_bend(x, x[2], source, path)
          [] x[1] = "Format" -> Format_bend(x, source, path)
          [] x[1] = "ProtectedFormat" -> ProtectedFormat_bend(x, source, path)
          [] OTHER ->
               Raise("AttributeError",
                     <<"'", TypeName(x), "' object has no attribute 'bend'">>,
                     <<>>))

--------------------------------------------------------------------------
(* The inputs: the mappings that are constructed and the sources and       *)
(* contexts they are evaluated on.                                         *)

(* the longest source list *)
MaxLen == 3
(* the most benders an Alternation is given *)
MaxBenders == 2

Str(s) == StrV(<<s>>)

(* [1, 4, 6, ...] *)
Elem(i) == IF i = 1 THEN 1 ELSE IF i = 2 THEN 4 ELSE i + 3
IntList(n) == ListV([i \in 1..n |-> IntV(Elem(i))])

DictX(v) == DictV(<< <<Str("x"), v>> >>)
SourceAB == DictV(<< <<Str("a"), DictV(<< <<Str("b"), ListV(<<IntV(7)>>)>> >>)>> >>)
ContextK ==
  DictV(<< <<Str("k"), IntV(5)>>,
           <<Str("a"), DictV(<< <<Str("b"), ListV(<<IntV(8)>>)>> >>)>> >>)

Sources ==
  {IntList(n) : n \in 0..MaxLen}
  \cup {NoneV, ListV(<<NoneV>>), DictX(IntV(1)), SourceAB,
        ListV(<<DictX(IntV(1)), DictX(IntV(2))>>),
        ListV(<<DictX(IntV(1)), EmptyDict>>)}

(* the context argument of bend(): NoneV when omitted *)
Contexts == {NoneV, ContextK}

(* benders with a bend method that need no children *)
Fmt(s) == Format(<< <<"lit", s>> >>, <<>>, <<>>)
FmtEmpty == Format(<<>>, <<>>, <<>>)
FmtIndexError == Format(<< <<"auto">> >>, <<>>, <<>>)
FmtKeyError == Format(<< <<"name", "k">> >>, <<>>, <<>>)
AltEmpty == Alternation(<<>>)
First == Reduce(Function("add"))

(* all sequences of length 0..n over S *)
SeqsUpTo(S, n) == UNION {[1..k -> S] : k \in 0..n}

(* mappings for bend(): dicts and lists that mix literals and benders *)
DictChildren ==
  {IntV(1), GetItem(Str("x")), Context,
   If(Fmt("A"), If_default, If_default),
   DictV(<< <<Str("n"), GetItem(Str("x"))>> >>),
   ListV(<<Str("foo1"), GetItem(Str("x"))>>)}
DictMappings ==
  {EmptyDict}
  \cup {DictV(<< <<Str("a"), c>> >>) : c \in DictChildren}
  \cup {DictV(<< <<Str("a"), c>>, <<Str("b"), d>> >>) :
          c \in DictChildren, d \in DictChildren}

(* plain literals *)
Atoms == {NoneV, IntV(123), Str("a const value")}
Literals ==
  Atoms
  \cup {ListV(s) : s \in SeqsUpTo(Atoms, 2)}
  \cup {DictV(<< <<Str("a"), ListV(<<IntV(1), DictV(<< <<Str("b"), NoneV>> >>)>>)>>,
                 <<Str("b"), BoolV(FALSE)>> >>),
        ListV(<<ListV(<<IntV(1), NoneV>>), DictV(<< <<IntV(2), EmptyDict>> >>)>>)}

(* the benders a Compose chain is made of *)
Stages == {GetItem(Str("a")), GetItem(Str("b")), GetItem(IntV(0)), Context}
ComposeBenders ==
  {Compose(Compose(a, b), c) : a \in Stages, b \in Stages, c \in Stages}

OperatorBenders ==
  {Neg(GetItem(IntV(0))), Invert(Context), Add(GetItem(IntV(0)), IntV(1)),
   Sub(GetItem(IntV(1)), GetItem(IntV(0))), Mul(GetItem(IntV(0)), IntV(2)),
   Eq(GetItem(IntV(0)), IntV(1)), Ne(Context, EmptyDict),
   And(GetItem(IntV(0)), Context), Or(GetItem(Str("x")), GetItem(Str("y")))}

AlternationLeaves == {Fmt("A"), FmtIndexError, FmtKeyError, AltEmpty, First}
Alternations ==
  {Alternation(s) : s \in SeqsUpTo(AlternationLeaves, MaxBenders)}

SwitchCases ==
  {EmptyDict,
   DictV(<< <<Str("A"), Fmt("twitter")>>, <<Str("B"), FmtIndexError>> >>),
   ListV(<<Fmt("zero"), First>>)}
Switches ==
  {Switch(k, c, d) : k \in {Fmt("A"), Fmt("B"), First, FmtKeyError},
                     c \in SwitchCases, d \in {NoneV, Fmt("email"), AltEmpty}}

Ifs ==
  {If(c, t, f) : c \in {Fmt("A"), FmtEmpty, First, FmtKeyError},
                 t \in {If_default, Fmt("Li"), FmtIndexError},
                 f \in {If_default, Fmt("Kuerten"), AltEmpty}}

FormatStrings ==
  {<< <<"auto">>, <<"lit", " ">>, <<"name", "noun">>, <<"lit", ".">> >>,
   << <<"auto">>, <<"lit", "-">>, <<"auto">> >>}
ProtectedFormats ==
  {ProtectedFormat(f, a, k) :
     f \in FormatStrings,
     a \in SeqsUpTo({Fmt("This"), First, FmtIndexError}, 2),
     k \in {<<>>, << <<"noun", First>> >>, << <<"noun", Fmt("test")>> >>}}

ListOps ==
  {Reduce(Function("add")), Reduce(Function("sub")), Forall(Function("double")),
   Forall(Function("get_x")), Filter(Function("truthy")),
   FlatForall(Function("pair")), FlatForall(Function("double")),
   ListOp2("Reduce", Forall(Function("double")), Function("sub"))}

(* the mappings a ForallBend is given *)
ForallBendMappings ==
  {Context, DictV(<< <<Str("y"), GetItem(Str("x"))>> >>),
   DictV(<< <<Str("c"), Context>>, <<Str("y"), GetItem(Str("x"))>> >>)}
ForallBends(context) ==
  {ForallBend(m, context) : m \in ForallBendMappings}
  \cup {Alternation(<<FmtKeyError, ForallBend(m, context)>>) :
          m \in ForallBendMappings}
  \cup {Alternation(<<ForallBend(m, context), Fmt("A")>>) :
          m \in ForallBendMappings}

(* what is constructed: <<mapping, the context given to ForallBend()>> *)
Constructed ==
  {<<m, NoneV>> : m \in DictMappings \cup Literals \cup ComposeBenders
                        \cup OperatorBenders \cup Alternations \cup Switches
                        \cup Ifs \cup ProtectedFormats \cup ListOps}
  \cup UNION {{<<m, c>> : m \in ForallBends(c)} : c \in {NoneV, ContextK}}

--------------------------------------------------------------------------
(* The state: the mapping that was constructed, the attributes that        *)
(* evaluation has assigned on its benders, and the last call made on it.   *)

VARIABLES
  mapping,       \* the constructed mapping: a literal, a list, a dict or a bender
  ctor_context,  \* the context argument the ForallBend constructors were given
  func_attr,     \* paths of the benders whose _func attribute evaluation has set
  call,          \* the last call: "none", "bend", "call" or "dot_bend"
  source,        \* its source argument
  context,       \* its context argument (bend() only)
  result         \* what it returned or raised, with its trace

vars == <<mapping, ctor_context, func_attr, call, source, context, result>>

Init ==
  /\ \E c \in Constructed : mapping = c[1] /\ ctor_context = c[2]
  /\ func_attr = {}
  /\ call = "none"
  /\ source = NoneV
  /\ context = NoneV
  /\ result = Return(NoneV, <<>>)

(* the attribute assignments of a trace *)
Assigned(log) == {log[i][2] : i \in {j \in 1..Len(log) : log[j][1] = "setattr"}}

Finish(name, src, ctx, r) ==
  /\ call' = name
  /\ source' = src
  /\ context' = ctx
  /\ result' = r
  /\ func_attr' = func_attr \cup Assigned(r.log)
  /\ UNCHANGED <<mapping, ctor_context>>

(* bend(mapping, source, context) *)
BendCall ==
  \E src \in Sources, ctx \in Contexts :
    Finish("bend", src, ctx, bend(mapping, src, ctx, <<>>))

(* benderify(mapping)(source) *)
DirectCall ==
  \E src \in Sources :
    Finish("call", src, NoneV, Bender_call(benderify(mapping), src, <<>>))

(* mapping.bend(source) *)
DotBendCall ==
  \E src \in Sources :
    Finish("dot_bend", src, NoneV, bend_of(mapping, src, <<>>))

Next == BendCall \/ DirectCall \/ DotBendCall

Spec == Init /\ [][Next]_vars

--------------------------------------------------------------------------
(* What the properties below read from an outcome and its trace *)

(* the same return value, or the same exception class and message *)
Same(r1, r2) ==
  r1.st = r2.st /\ r1.val = r2.val /\ r1.cls = r2.cls /\ r1.msg = r2.msg

(* sub occurs in s *)
Contains(s, sub) ==
  \E i \in 0..(Len(s) - Len(sub)) : SubSeq(s, i + 1, i + Len(sub)) = sub

Min(S) == CHOOSE x \in S : \A y \in S : x <= y

IsChildEval(e) == e[1] = "eval" /\ Len(e[2]) = 1
IsFnCall(e) == e[1] = "fn"
(* the children of the root that were evaluated, in the order they were *)
ChildEvals(log) ==
  LET evs == SelectSeq(log, IsChildEval) IN [i \in 1..Len(evs) |-> evs[i][2]]
(* the calls of the caller's functions, in the order they were made *)
FnCalls(log) == SelectSeq(log, IsFnCall)
(* where in the trace the bender at path was evaluated *)
Position(log, path) == CHOOSE i \in 1..Len(log) : log[i] = EvalEv(path)

(* what bend() and a direct call hand to the root bender *)
RootSource ==
  IF call = "bend"
  THEN Transport(source, IF context = NoneV THEN EmptyDict ELSE context)
  ELSE from_source(source)

--------------------------------------------------------------------------
(* Dict *)

DictCall == call \in {"bend", "call"} /\ mapping[1] = "dict"
(* the evaluation of the child of the i-th key, on its own *)
DictChild(i) == raw_execute(benderify(mapping[2][i][2]), RootSource, <<i>>)
DictRaising == {i \in 1..Len(mapping[2]) : DictChild(i).st = "exc"}

(* C1: when the child of some key of a Dict raises, the Dict raises a      *)
(* BendingException whose message names that key and contains the child's  *)
(* message; when no child raises, the result is a mapping with exactly the *)
(* Dict's keys, each bound to the value of its child.                      *)
DictAttributesFailureToKey ==
  DictCall =>
    IF DictRaising # {}
    THEN /\ result.st = "exc"
         /\ result.cls = "BendingException"
         /\ Contains(result.msg, StrOf(mapping[2][Min(DictRaising)][1]))
         /\ Contains(result.msg, DictChild(Min(DictRaising)).msg)
    ELSE /\ result.st = "ok"
         /\ result.val[1] = "dict"
         /\ Len(result.val[2]) = Len(mapping[2])
         /\ \A i \in 1..Len(mapping[2]) :
              result.val[2][i] =
                <<mapping[2][i][1], ValueOf(DictChild(i).val)>>

(* a Dict whose second child raised a KeyError with a message *)
DictSecondKeyFailed ==
  /\ DictCall
  /\ DictRaising = {2}
  /\ DictChild(2).cls = "KeyError"
  /\ DictChild(2).msg # <<>>
  /\ result.cls = "BendingException"

--------------------------------------------------------------------------
(* Alternation *)

AlternationCall ==
  call = "dot_bend" /\ mapping[1] = "Alternation" /\ Len(mapping[2]) > 0
(* b_i.bend(source), on its own *)
AlternationChild(i) == bend_of(mapping[2][i], source, <<i>>)
(* the benders that return or raise something other than a LookupError *)
AlternationDeciding ==
  {i \in 1..Len(mapping[2]) :
     AlternationChild(i).st = "ok" \/ ~IsLookupError(AlternationChild(i).cls)}
(* the last bender the claim has evaluated *)
AlternationLast ==
  IF AlternationDeciding = {} THEN Len(mapping[2]) ELSE Min(AlternationDeciding)

--------------------------------------------------------------------------
(* Switch *)

SwitchCall == call = "dot_bend" /\ mapping[1] = "Switch"
SwitchKey == bend_of(mapping[2], source, <<1>>)
(* cases[key] *)
SwitchCase == Subscript(mapping[3], SwitchKey.val)
SwitchCasePath == <<2 + CasePosition(mapping[3], SwitchKey.val)>>

--------------------------------------------------------------------------
(* ForallBend *)

ForallBendCall ==
  call = "dot_bend" /\ mapping[1] = "ForallBend" /\ source[1] = "list"
(* bend(mapping, e_i, context) with the context the constructor was given *)
ForallBendElement(i) == bend(mapping[2], source[2][i], ctor_context, <<1>>)

(* C4: ForallBend(mapping, context) on [e1..en] returns                    *)
(* [bend(mapping, e1, context), ..., bend(mapping, en, context)], context  *)
(* being the one given to the constructor.                                 *)
ForallBendUsesItsContext ==
  (/\ ForallBendCall
   /\ \A i \in 1..Len(source[2]) : ForallBendElement(i).st = "ok") =>
    /\ result.st = "ok"
    /\ result.val =
         ListV([i \in 1..Len(source[2]) |-> ForallBendElement(i).val])

--------------------------------------------------------------------------
(* Reduce *)

ReduceCall ==
  /\ call = "dot_bend"
  /\ mapping[1] = "Reduce"
  /\ mapping[3] = NoneV
  /\ source[1] = "list"

RECURSIVE FoldTo(_, _, _)
(* fn(...fn(fn(e1, e2), e3)..., ek): the fold the claim describes *)
FoldTo(fn, items, k) ==
  IF k = 1 THEN Return(items[1], <<>>)
  ELSE Then(FoldTo(fn, items, k - 1),
            LAMBDA acc : UserFunction(fn, <<acc, items[k]>>))

(* C5: Reduce(fn) on a non-empty [e1..en] returns the left fold seeded by  *)
(* e1, calling fn n-1 times from left to right (where fn returns each      *)
(* time); on an empty sequence it raises a ValueError.                     *)
ReduceIsLeftFold ==
  ReduceCall =>
    IF Len(source[2]) = 0
    THEN result.st = "exc" /\ result.cls = "ValueError"
    ELSE FoldTo(mapping[2][2], source[2], Len(source[2])).st = "ok" =>
           /\ result.st = "ok"
           /\ result.val = FoldTo(mapping[2][2], source[2], Len(source[2])).val
           /\ FnCalls(result.log) =
                [i \in 1..(Len(source[2]) - 1) |->
                   FnEv(mapping[2][2],
                        <<FoldTo(mapping[2][2], source[2], i).val,
                          source[2][i + 1]>>)]

(* a subtraction folded over the longest list *)
ReduceFoldedLongest ==
  /\ ReduceCall
  /\ mapping[2] = Function("sub")
  /\ Len(source[2]) = MaxLen
  /\ result.st = "ok"
  /\ Len(FnCalls(result.log)) = MaxLen - 1

--------------------------------------------------------------------------
(* benderify *)

RECURSIVE IsPlain(_)
(* a literal with no bender in it *)
IsPlain(x) ==
  CASE x[1] = "list" -> \A i \in 1..Len(x[2]) : IsPlain(x[2][i])
    [] x[1] = "dict" -> \A i \in 1..Len(x[2]) : IsPlain(x[2][i][2])
    [] OTHER -> ~IsBender(x)

RECURSIVE LiteralLeavesKept(_, _)
(* out has the shape of the mapping m and its literal leaves *)
LiteralLeavesKept(m, out) ==
  CASE m[1] = "list" ->
         /\ out[1] = "list"
         /\ Len(out[2]) = Len(m[2])
         /\ \A i \in 1..Len(m[2]) : LiteralLeavesKept(m[2][i], out[2][i])
    [] m[1] = "dict" ->
         /\ out[1] = "dict"
         /\ Len(out[2]) = Len(m[2])
         /\ \A i \in 1..Len(m[2]) :
              /\ out[2][i][1] = m[2][i][1]
              /\ LiteralLeavesKept(m[2][i][2], out[2][i][2])
    [] IsBender(m) -> TRUE
    [] OTHER -> out = m

(* C6: a plain literal, nested lists and dicts included, evaluates to      *)
(* itself on every source and context; in a mapping that mixes literals    *)
(* and benders every literal leaf is in the output of bend() unchanged.    *)
LiteralsEvaluateToThemselves ==
  call \in {"bend", "call"} =>
    /\ IsPlain(mapping) => result.st = "ok" /\ result.val = mapping
    /\ (mapping[1] \in {"list", "dict"} /\ result.st = "ok") =>
         LiteralLeavesKept(mapping, result.val)

(* a nested literal was bent on a source that is not None, with a context *)
NestedLiteralBent ==
  /\ call = "bend"
  /\ IsPlain(mapping)
  /\ mapping[1] = "list"
  /\ Len(mapping[2]) = 2
  /\ mapping[2][2][1] = "dict"
  /\ source # NoneV
  /\ context # NoneV
  /\ result.val = mapping

--------------------------------------------------------------------------
(* If *)

IfCall == call = "dot_bend" /\ mapping[1] = "If"
IfCondition == bend_of(mapping[2], source, <<1>>)
(* the branch the condition selects: child 2 (when_true) or 3 (when_false) *)
IfTaken == IF Truthy(IfCondition.val) THEN 2 ELSE 3

(* C7: If evaluates its condition once and then exactly the branch the     *)
(* condition selects, whose outcome it has; an omitted branch yields None. *)
IfEvaluatesOneBranch ==
  (IfCall /\ IfCondition.st = "ok") =>
    /\ ChildEvals(result.log) = << <<1>>, <<IfTaken>> >>
    /\ IF mapping[IfTaken + 1] = If_default
       THEN result.st = "ok" /\ result.val = NoneV
       ELSE Same(result, bend_of(mapping[IfTaken + 1], source, <<IfTaken>>))

--------------------------------------------------------------------------
(* ProtectedFormat *)

ProtectedFormatCall == call = "dot_bend" /\ mapping[1] = "ProtectedFormat"
(* the argument benders: the positional ones, then the named ones *)
FormatArgs == mapping[3] \o [j \in 1..Len(mapping[4]) |-> mapping[4][j][2]]
FormatArg(i) == bend_of(FormatArgs[i], source, <<i>>)
SomeArgIsNone ==
  \E i \in 1..Len(FormatArgs) :
    FormatArg(i).st = "ok" /\ FormatArg(i).val = NoneV
EveryArgReturns == \A i \in 1..Len(FormatArgs) : FormatArg(i).st = "ok"
(* Format with the same template and argument benders, on the same source *)
SameFormat ==
  bend_of(Format(mapping[2], mapping[3], mapping[4]), source, <<>>)
(* the root itself, not merely an argument of it, called str.format *)
Interpolated(log) == \E i \in 1..Len(log) : log[i] = FormatEv(<<>>)
ReturnedNone ==
  result.st = "ok" /\ result.val = NoneV /\ ~Interpolated(result.log)

--------------------------------------------------------------------------
(* Compose *)

ComposeCall ==
  /\ call \in {"bend", "call"}
  /\ mapping[1] = "Compose"
  /\ mapping[2][1] = "Compose"
(* the state's mapping is Compose(Compose(a, b), c) *)
LeftGrouped == raw_execute(mapping, RootSource, <<>>)
(* Compose(a, Compose(b, c)) *)
RightGrouped ==
  raw_execute(Compose(mapping[2][2], Compose(mapping[2][3], mapping[3])),
              RootSource, <<>>)

(* C9: where a, b and c succeed, Compose(Compose(a, b), c) and             *)
(* Compose(a, Compose(b, c)) return the same value and the same context,   *)
(* and each evaluates a before b and b before c.                           *)
ComposeIsAssociative ==
  (ComposeCall /\ result.st = "ok") =>
    /\ LeftGrouped.st = "ok"
    /\ result.val = ValueOf(LeftGrouped.val)
    /\ RightGrouped.st = "ok"
    /\ ValueOf(RightGrouped.val) = ValueOf(LeftGrouped.val)
    /\ ContextOf(RightGrouped.val) = ContextOf(LeftGrouped.val)
    /\ Position(LeftGrouped.log, <<1, 1>>) < Position(LeftGrouped.log, <<1, 2>>)
    /\ Position(LeftGrouped.log, <<1, 2>>) < Position(LeftGrouped.log, <<2>>)
    /\ Position(RightGrouped.log, <<1>>) < Position(RightGrouped.log, <<2, 1>>)
    /\ Position(RightGrouped.log, <<2, 1>>) < Position(RightGrouped.log, <<2, 2>>)

(* a chain through the source and then the context succeeded *)
ComposeChainThroughContext ==
  /\ ComposeCall
  /\ call = "bend"
  /\ context = ContextK
  /\ mapping[2][2] = GetItem(Str("a"))
  /\ mapping[2][3] = Context
  /\ mapping[3] = GetItem(Str("a"))
  /\ result.st = "ok"
  /\ result.val = Lookup(ContextK, Str("a"))

--------------------------------------------------------------------------
(* The bender tree *)

(* C10: after any sequence of evaluations every field of every node has    *)
(* the value it had at construction: evaluation assigns no attribute of a  *)
(* bender.                                                                 *)
EvaluationWritesNoField == func_attr = {}

--------------------------------------------------------------------------
(* The context *)

(* the context bend() establishes; a direct call on a plain source has {}  *)
CallContext ==
  IF call = "bend" /\ context # NoneV THEN context ELSE EmptyDict
IsRecv(e) == e[1] = "recv"
IsRet(e) == e[1] = "ret"
CarriesCallContext(x) == x[1] = "transport" /\ ContextOf(x) = CallContext

(* C11: in bend(mapping, source, context) every core node is given a       *)
(* Transport with that context and returns a Transport with the same       *)
(* context, so a Context node anywhere in the tree evaluates to it; in a    *)
(* direct call on a plain source every node returns the empty mapping as   *)
(* context, and a Context node evaluates to it.                            *)
ContextIsThreadedUnchanged ==
  call \in {"bend", "call"} =>
    \A i \in 1..Len(result.log) :
      /\ (IsRecv(result.log[i]) /\ call = "bend") =>
           CarriesCallContext(result.log[i][4])
      /\ IsRet(result.log[i]) =>
           /\ CarriesCallContext(result.log[i][4])
           /\ result.log[i][3] = "Context" =>
                ValueOf(result.log[i][4]) = CallContext

(* a Context node that is the second stage of a chain, after a lookup in   *)
(* the source, returned the context given to bend()                        *)
ContextReadAfterLookup ==
  /\ call = "bend"
  /\ context = ContextK
  /\ mapping[1] = "Compose"
  /\ mapping[2] = Compose(GetItem(Str("a")), Context)
  /\ result.st = "ok"
  /\ RetEv(<<1, 2>>, "Context", Transport(ContextK, ContextK))
       \in {result.log[i] : i \in 1..Len(result.log)}

--------------------------------------------------------------------------
(* A Dict beneath an Alternation *)

(* an Alternation whose first alternative bends each element of the source *)
(* with a dict mapping, and which has a later alternative                   *)
AlternationOverDict ==
  /\ AlternationCall
  /\ Len(mapping[2]) > 1
  /\ mapping[2][1][1] = "ForallBend"
  /\ mapping[2][1][2][1] = "dict"
  /\ source[1] = "list"
(* the child of the k-th key of that mapping, evaluated on element i *)
ElementKey(i, k) ==
  raw_execute(benderify(mapping[2][1][2][2][k][2]),
              Transport(source[2][i], EmptyDict), <<>>)
LookupErrorBeneathDict ==
  \E i \in 1..Len(source[2]), k \in 1..Len(mapping[2][1][2][2]) :
    ElementKey(i, k).st = "exc" /\ IsLookupError(ElementKey(i, k).cls)

(* C12: a failure beneath a Dict, a LookupError included, leaves the Dict   *)
(* as a BendingException, which is no LookupError: the caller of bend() on  *)
(* a dict mapping never sees the LookupError class, and an Alternation      *)
(* around the Dict raises the BendingException without trying its later    *)
(* alternatives.                                                           *)
DictFailureIsNotRecoverable ==
  /\ (DictCall /\ result.st = "exc") =>
       result.cls = "BendingException" /\ ~IsLookupError(result.cls)
  /\ (AlternationOverDict /\ LookupErrorBeneathDict) =>
       /\ result.st = "exc"
       /\ result.cls = "BendingException"
       /\ ~IsLookupError(result.cls)
       /\ ChildEvals(result.log) = << <<1>> >>

(* a KeyError for the second element, with an alternative that would return *)
AlternationNotRecovered ==
  /\ AlternationOverDict
  /\ LookupErrorBeneathDict
  /\ ElementKey(2, Len(mapping[2][1][2][2])).cls = "KeyError"
  /\ mapping[2][2] = Fmt("A")
  /\ result.cls = "BendingException"

====
